---------------------------- MODULE Spec2Model ----------------------------
(***************************************************************************)
(* Model of the Seedlink latency proxy (SeedlinkLatencyProxy and its       *)
(* query engine).  Strings are sequences of one-character strings, so      *)
(* that the conversions of the code (wildcard to regular expression,       *)
(* string to number, comma splitting) are computed and not assumed.        *)
(***************************************************************************)
EXTENDS Integers, Sequences, FiniteSets, TLC

VARIABLES
    configuration,    \* this.configuration: __SORT__, __CLOSED__, REFRESH_INTERVAL, servers
    cachedLatencies,  \* this.cachedLatencies: the published snapshot
    published,        \* history: setLatencyCache has run at least once
    servers,          \* refreshCacheFull: the cycle's own copy of the server list
    latencies,        \* refreshCacheFull: the list merged so far in this cycle
    server,           \* refreshCacheFull: the server being polled, 0 when none is
    pc,               \* "polling": a getLatencies callback is outstanding;
                      \* "waiting": the setTimeout of setLatencyCache is pending;
                      \* "terminated": an exception left a handler uncaught
    socket,           \* the SeedlinkInfoSocket of the current poll: state of
                      \* this.socket, this.buffer, this.records, writes made
    endpoint,         \* the remote server of the current poll: the bytes it
                      \* has sent and will send, and how its connection ends
    timer,            \* time since the pending setTimeout was armed, -1 when
                      \* no timer is pending
    sincePublish,     \* history: time since setLatencyCache last ran, -1
                      \* before it first ran
    cycleLog,         \* history: the outcomes of the polls of the running cycle,
                      \* each with whether its socket was destroyed at the callback
    completedLog,     \* history: the outcomes of the polls of the last cycle
                      \* that published
    request,          \* the last HTTP request handled: pathname and queryObject
    observed,         \* the value of this.cachedLatencies that request read
    response,         \* the HTTPResponse written for it
    wcCode,           \* testWildcard: the record value under test
    wcPattern,        \* testWildcard: the wildcard pattern under test
    wcMatch           \* testWildcard: <<>> before the call, <<result>> after

vars == <<configuration, cachedLatencies, published, servers, latencies, server, pc,
          socket, endpoint, timer, sincePublish, cycleLog, completedLog,
          request, observed, response, wcCode, wcPattern, wcMatch>>

progVars == <<configuration, cachedLatencies, published, servers, latencies, server, pc,
              socket, endpoint, timer, sincePublish, cycleLog, completedLog>>
httpVars == <<request, observed, response>>
wcVars   == <<wcCode, wcPattern, wcMatch>>

---------------------------------------------------------------------------
(* Bounds of the model. *)

MaxPatternLen == 3
MaxCodeLen == 3
MaxServers == 2
MaxSnapshot == 2
MaxQueryKeys == 2
MaxStreams == 2

---------------------------------------------------------------------------
(* Strings *)

RECURSIVE SeqsUpTo(_, _)
SeqsUpTo(S, n) ==
    IF n = 0 THEN {<<>>}
    ELSE LET shorter == SeqsUpTo(S, n - 1)
         IN  shorter \cup {Append(s, c) : s \in {t \in shorter : Len(t) = n - 1}, c \in S}

Digits == {"0", "1", "2", "3", "4", "5", "6", "7", "8", "9"}
LowerLetters == <<"a","b","c","d","e","f","g","h","i","j","k","l","m",
                  "n","o","p","q","r","s","t","u","v","w","x","y","z">>
UpperLetters == <<"A","B","C","D","E","F","G","H","I","J","K","L","M",
                  "N","O","P","Q","R","S","T","U","V","W","X","Y","Z">>
Range(f) == {f[i] : i \in DOMAIN f}
LowerSet == Range(LowerLetters)
UpperSet == Range(UpperLetters)

\* String.prototype.toUpperCase, one character
UpperChar(c) ==
    IF c \in LowerSet
    THEN UpperLetters[CHOOSE i \in DOMAIN LowerLetters : LowerLetters[i] = c]
    ELSE c

ToUpperCase(s) == [i \in DOMAIN s |-> UpperChar(s[i])]

---------------------------------------------------------------------------
(* filterLatencies: matchArray / testWildcard / convertWildcard *)

\* x.replace(/\?/g, ".").replace(/\*/g, ".*"): the source text of a regular expression
RECURSIVE convertWildcard(_)
convertWildcard(x) ==
    IF x = <<>> THEN <<>>
    ELSE LET c == Head(x)
         IN  (IF c = "?" THEN <<".">>
              ELSE IF c = "*" THEN <<".", "*">>
              ELSE <<c>>) \o convertWildcard(Tail(x))

\* The line terminators "." does not match in a JavaScript regular expression
LineTerminators == {"\n", "\r"}

\* new RegExp(source) without flags: the atoms of the source between its
\* anchors; an atom followed by "*" is starred.
RECURSIVE RegExpAtoms(_)
RegExpAtoms(src) ==
    IF src = <<>> THEN <<>>
    ELSE IF Len(src) >= 2 /\ src[2] = "*"
         THEN <<[ch |-> src[1], star |-> TRUE]>> \o RegExpAtoms(SubSeq(src, 3, Len(src)))
         ELSE <<[ch |-> src[1], star |-> FALSE]>> \o RegExpAtoms(Tail(src))

\* One atom against one character: "." is any character but a line
\* terminator, anything else is itself (no flag: case-sensitive).
AtomMatches(atom, c) ==
    IF atom.ch = "." THEN c \notin LineTerminators ELSE c = atom.ch

\* The positions of str a match of one atom can end at, started from a
\* position of from (simulation of the automaton, one atom at a time).
AtomStep(atom, str, from) ==
    IF atom.star
    THEN {j \in 0..Len(str) :
            \E p \in from : p <= j /\ \A k \in (p + 1)..j : AtomMatches(atom, str[k])}
    ELSE {p + 1 : p \in {q \in from : q < Len(str) /\ AtomMatches(atom, str[q + 1])}}

RECURSIVE RegExpEnds(_, _, _)
RegExpEnds(atoms, str, from) ==
    IF atoms = <<>> THEN from
    ELSE RegExpEnds(Tail(atoms), str, AtomStep(Head(atoms), str, from))

\* RegExp.prototype.test: "^" at the head and "$" at the end of the source
\* anchor the match; without them it may start and end anywhere.
RegExpTest(src, str) ==
    LET atStart == src # <<>> /\ Head(src) = "^"
        s1      == IF atStart THEN Tail(src) ELSE src
        atEnd   == s1 # <<>> /\ s1[Len(s1)] = "$"
        body    == IF atEnd THEN SubSeq(s1, 1, Len(s1) - 1) ELSE s1
        starts  == IF atStart THEN {0} ELSE 0..Len(str)
        ends    == RegExpEnds(RegExpAtoms(body), str, starts)
    IN  IF atEnd THEN Len(str) \in ends ELSE ends # {}

\* A matcher that forgets the anchors (used to show the anchoring matters)
testWildcardUnanchored(code, x) == RegExpTest(convertWildcard(x), code)

\* new RegExp("^" + convertWildcard(x) + "$").test(code)
testWildcard(code, x) == RegExpTest(<<"^">> \o convertWildcard(x) \o <<"$">>, code)

---------------------------------------------------------------------------
(* validateParameters *)

\* String.prototype.split(",")
RECURSIVE Split(_)
Split(value) ==
    IF \A i \in DOMAIN value : value[i] # ","
    THEN <<value>>
    ELSE LET k == CHOOSE i \in DOMAIN value :
                      value[i] = "," /\ \A j \in 1..(i - 1) : value[j] # ","
         IN  <<SubSeq(value, 1, k - 1)>> \o Split(SubSeq(value, k + 1, Len(value)))

\* [0-9a-z?*] under the i flag
CodeClass == Digits \cup LowerSet \cup UpperSet \cup {"?", "*"}

\* [0-9a-z-?*] under the i flag
LocationClass == CodeClass \cup {"-"}

NETWORK_MAX == 2
STATION_MAX == 5
LOCATION_MAX == 2
CHANNEL_MAX == 3

\* /^(CLASS{1,n},){0,}(CLASS{1,n})$/i.test(value): a comma-separated list
\* of items, each of 1..n characters of the class.
ListRegExpTest(value, class, n) ==
    LET items == Split(value)
    IN  \A i \in DOMAIN items :
           /\ Len(items[i]) \in 1..n
           /\ \A j \in DOMAIN items[i] : items[i][j] \in class

\* Number(value) for the strings made of digits, a sign and a decimal point;
\* every other string of the model's alphabets is NaN.
DigitSeq == <<"0", "1", "2", "3", "4", "5", "6", "7", "8", "9">>
DigitValue(c) == (CHOOSE i \in DOMAIN DigitSeq : DigitSeq[i] = c) - 1
AllDigits(s) == \A i \in DOMAIN s : s[i] \in Digits

RECURSIVE DecimalValue(_)
DecimalValue(ds) ==
    IF ds = <<>> THEN 0
    ELSE 10 * DecimalValue(SubSeq(ds, 1, Len(ds) - 1)) + DigitValue(ds[Len(ds)])

NaN == [nan |-> TRUE, neg |-> FALSE, whole |-> 0, frac |-> FALSE]

Number(value) ==
    IF value = <<>> THEN [nan |-> FALSE, neg |-> FALSE, whole |-> 0, frac |-> FALSE]
    ELSE LET signed == Head(value) \in {"-", "+"}
             neg    == Head(value) = "-"
             body   == IF signed THEN Tail(value) ELSE value
             dots   == {i \in DOMAIN body : body[i] = "."}
         IN  IF dots = {}
             THEN IF body # <<>> /\ AllDigits(body)
                  THEN [nan |-> FALSE, neg |-> neg, whole |-> DecimalValue(body), frac |-> FALSE]
                  ELSE NaN
             ELSE LET d    == CHOOSE i \in dots : \A j \in dots : i <= j
                      ip   == SubSeq(body, 1, d - 1)
                      fp   == SubSeq(body, d + 1, Len(body))
                  IN  IF AllDigits(ip) /\ AllDigits(fp) /\ (ip # <<>> \/ fp # <<>>)
                      THEN [nan |-> FALSE, neg |-> neg, whole |-> DecimalValue(ip),
                            frac |-> \E i \in DOMAIN fp : fp[i] # "0"]
                      ELSE NaN

\* Number(value) % 1 === 0
IsWholeNumber(value) == LET n == Number(value) IN ~n.nan /\ ~n.frac

\* isValidParameter(key, value); undefined (falsy) for any other key
isValidParameter(key, value) ==
    CASE key = "network"  -> ListRegExpTest(value, CodeClass, NETWORK_MAX)
      [] key = "station"  -> ListRegExpTest(value, CodeClass, STATION_MAX)
      [] key = "location" -> ListRegExpTest(value, LocationClass, LOCATION_MAX)
      [] key = "channel"  -> ListRegExpTest(value, CodeClass, CHANNEL_MAX)
      [] key \in {"min", "max"} -> IsWholeNumber(value)
      [] OTHER -> FALSE

ALLOWED_PARAMETERS == {"network", "station", "location", "channel", "min", "max"}

\* validateParameters(queryObject): "ok", or the Error it throws.  The
\* queryObject is a function from the keys it has to their string values.
validateParameters(queryObject) ==
    IF \E k \in DOMAIN queryObject : k \notin ALLOWED_PARAMETERS
    THEN "not supported"
    ELSE IF \E k \in DOMAIN queryObject : ~isValidParameter(k, queryObject[k])
         THEN "not valid"
         ELSE "ok"

---------------------------------------------------------------------------
(* setLatencyCache: sortLatencies *)

\* latencies.sort(sortLatencies): ascending by msLatency, by insertion
RECURSIVE InsertLatency(_, _)
InsertLatency(sorted, a) ==
    IF sorted = <<>> THEN <<a>>
    ELSE IF a.msLatency - Head(sorted).msLatency < 0
         THEN <<a>> \o sorted
         ELSE <<Head(sorted)>> \o InsertLatency(Tail(sorted), a)

RECURSIVE SortLatencies(_)
SortLatencies(seq) ==
    IF seq = <<>> THEN <<>>
    ELSE InsertLatency(SortLatencies(SubSeq(seq, 1, Len(seq) - 1)), seq[Len(seq)])

---------------------------------------------------------------------------
(* filterLatencies *)

\* values.filter(x => testWildcard(code, x)).length: the number of list
\* items (counted with repetition) that match the code
matchArray(code, values) ==
    Cardinality({i \in DOMAIN values : testWildcard(code, values[i])})

\* The replacement left out: "--" stays a literal pattern
ReplaceDashesOmitted(x) == x

\* x.replace("--", ""): the first occurrence of "--" is removed
ReplaceDashes(x) ==
    LET hits == {i \in 1..(Len(x) - 1) : x[i] = "-" /\ x[i + 1] = "-"}
    IN  IF hits = {} THEN x
        ELSE LET k == CHOOSE i \in hits : \A j \in hits : i <= j
             IN  SubSeq(x, 1, k - 1) \o SubSeq(x, k + 2, Len(x))

\* queryObject.location.split(",").map(x => x.replace("--", ""))
LocationValues(value) ==
    LET items == Split(value) IN [i \in DOMAIN items |-> ReplaceDashes(items[i])]

\* The & of two non-negative 32-bit integers
RECURSIVE BitAnd(_, _)
BitAnd(a, b) ==
    IF a = 0 \/ b = 0 THEN 0
    ELSE (a % 2) * (b % 2) + 2 * BitAnd(a \div 2, b \div 2)

\* if(queryObject.key): the key is present and its string is not empty
Truthy(queryObject, key) == key \in DOMAIN queryObject /\ queryObject[key] # <<>>

\* Number(value) <= m and m <= Number(value) for an integer m
NumberLE(n, m) ==
    /\ ~n.nan
    /\ IF n.neg THEN -n.whole <= m
       ELSE IF n.frac THEN n.whole < m ELSE n.whole <= m
NumberGE(n, m) ==
    /\ ~n.nan
    /\ IF ~n.neg THEN m <= n.whole
       ELSE IF n.frac THEN m < -n.whole ELSE m <= -n.whole

ToInt(b) == IF b THEN 1 ELSE 0

\* The list a field's value is matched against: split(","), and for the
\* location each item with its "--" replaced
FieldValues(queryObject, key) ==
    IF key = "location" THEN LocationValues(queryObject[key]) ELSE Split(queryObject[key])

\* if(bool && queryObject.key) { bool &= matchArray(latency.key, values) }
\* (the first test, of the network, has bool still true)
AndField(bool, latency, queryObject, key) ==
    IF bool # 0 /\ Truthy(queryObject, key)
    THEN BitAnd(bool, matchArray(latency[key], FieldValues(queryObject, key)))
    ELSE bool

\* if(bool && queryObject.min) { bool &= Number(queryObject.min) <= latency.msLatency }
AndMin(bool, latency, queryObject) ==
    IF bool # 0 /\ Truthy(queryObject, "min")
    THEN BitAnd(bool, ToInt(NumberLE(Number(queryObject["min"]), latency.msLatency)))
    ELSE bool

\* if(bool && queryObject.max) { bool &= latency.msLatency <= Number(queryObject.max) }
AndMax(bool, latency, queryObject) ==
    IF bool # 0 /\ Truthy(queryObject, "max")
    THEN BitAnd(bool, ToInt(NumberGE(Number(queryObject["max"]), latency.msLatency)))
    ELSE bool

\* The callback of this.cachedLatencies.filter: bool starts as true (1) and
\* each supplied constraint does bool &= ..., a bitwise and; the record is
\* kept when the final bool is truthy.
KeepLatency(latency, queryObject) ==
    AndMax(
      AndMin(
        AndField(
          AndField(
            AndField(
              AndField(1, latency, queryObject, "network"),
              latency, queryObject, "station"),
            latency, queryObject, "location"),
          latency, queryObject, "channel"),
        latency, queryObject),
      latency, queryObject) # 0

\* A filter that collects the kept records in front of the earlier ones
RECURSIVE FilterSeqReversed(_, _)
FilterSeqReversed(seq, queryObject) ==
    IF seq = <<>> THEN <<>>
    ELSE FilterSeqReversed(Tail(seq), queryObject)
         \o (IF KeepLatency(Head(seq), queryObject) THEN <<Head(seq)>> ELSE <<>>)

\* Array.prototype.filter
RECURSIVE FilterSeq(_, _)
FilterSeq(seq, queryObject) ==
    IF seq = <<>> THEN <<>>
    ELSE (IF KeepLatency(Head(seq), queryObject) THEN <<Head(seq)>> ELSE <<>>)
         \o FilterSeq(Tail(seq), queryObject)

\* The earlier variant of the shortcut: everything is returned when no
\* identifier field is supplied, bounds or not
filterLatenciesFieldsOnly(cache, queryObject) ==
    IF \A k \in {"network", "station", "location", "channel"} : ~Truthy(queryObject, k)
    THEN cache
    ELSE FilterSeq(cache, queryObject)

\* A variant that sorts what it returns
filterLatenciesSorted(cache, queryObject) ==
    SortLatencies(IF DOMAIN queryObject = {} THEN cache ELSE FilterSeq(cache, queryObject))

\* SeedlinkLatencyProxy.prototype.filterLatencies, on the cache it reads
filterLatencies(cache, queryObject) ==
    IF DOMAIN queryObject = {} THEN cache
    ELSE FilterSeq(cache, queryObject)

---------------------------------------------------------------------------
(* The HTTP request handler *)

NoBody == <<>>

Reply(statusCode, message, body) ==
    [statusCode |-> statusCode, message |-> message, body |-> body]

HTTPServerResponseUnvalidated(config, cache, pathname, queryObject) ==
    IF pathname = "/version" THEN Reply(200, "version", NoBody)
    ELSE IF pathname = "/swagger.yml" THEN Reply(200, "swagger.yml", NoBody)
    ELSE IF pathname # "/" THEN Reply(404, "Not found.", NoBody)
    ELSE IF config.__CLOSED__ THEN Reply(503, "closed for maintenance", NoBody)
    ELSE IF Len(cache) = 0 THEN Reply(204, "", NoBody)
    ELSE IF Len(filterLatencies(cache, queryObject)) = 0 THEN Reply(204, "", NoBody)
    ELSE Reply(200, "json", filterLatencies(cache, queryObject))

\* What HTTPServer writes for a request, given the cache it reads
HTTPServerResponse(config, cache, pathname, queryObject) ==
    IF pathname = "/version" THEN Reply(200, "version", NoBody)
    ELSE IF pathname = "/swagger.yml" THEN Reply(200, "swagger.yml", NoBody)
    ELSE IF pathname # "/" THEN Reply(404, "Not found.", NoBody)
    ELSE IF config.__CLOSED__ THEN Reply(503, "closed for maintenance", NoBody)
    ELSE IF Len(cache) = 0 THEN Reply(204, "", NoBody)
    ELSE LET valid == validateParameters(queryObject)
         IN  IF valid # "ok" THEN Reply(400, valid, NoBody)
             ELSE LET requestedLatencies == filterLatencies(cache, queryObject)
                  IN  IF Len(requestedLatencies) = 0 THEN Reply(204, "", NoBody)
                      ELSE Reply(200, "json", requestedLatencies)

HTTPServerReadsMerged(pathname, queryObject) ==
    /\ request' = [pathname |-> pathname, queryObject |-> queryObject]
    /\ observed' = latencies
    /\ response' = HTTPServerResponse(configuration, latencies, pathname, queryObject)
    /\ UNCHANGED <<progVars, wcVars>>

HTTPServerStoresResult(pathname, queryObject) ==
    /\ request' = [pathname |-> pathname, queryObject |-> queryObject]
    /\ observed' = cachedLatencies
    /\ response' = HTTPServerResponse(configuration, cachedLatencies, pathname, queryObject)
    /\ cachedLatencies' = response'.body
    /\ UNCHANGED <<configuration, published, servers, latencies, server, pc, socket,
                   endpoint, timer, sincePublish, cycleLog, completedLog, wcVars>>

\* SeedlinkLatencyProxy.prototype.HTTPServer: one request, handled in one
\* turn of the event loop; it reads the cache and writes nothing but the
\* response.
HTTPServer(pathname, queryObject) ==
    /\ request' = [pathname |-> pathname, queryObject |-> queryObject]
    /\ observed' = cachedLatencies
    /\ response' = HTTPServerResponse(configuration, cachedLatencies, pathname, queryObject)
    /\ UNCHANGED <<progVars, wcVars>>

---------------------------------------------------------------------------
(* Latency records *)

RecUnsigned(network, station, location, channel, end, msLatency) ==
    [network |-> network, station |-> station, location |-> location,
     channel |-> channel, end |-> end,
     msLatency |-> IF msLatency < 0 THEN 0 - msLatency ELSE msLatency]

\* The object parseRecords pushes; end and msLatency in milliseconds
Rec(network, station, location, channel, end, msLatency) ==
    [network |-> network, station |-> station, location |-> location,
     channel |-> channel, end |-> end, msLatency |-> msLatency]

RecMarco == Rec(<<"G","E">>, <<"M","A","R","C","O">>, <<>>, <<"H","H","Z">>, 5, 5)
RecHgn   == Rec(<<"N","L">>, <<"H","G","N">>, <<"0","0">>, <<"B","H","Z">>, 10, 0)
RecDash  == Rec(<<"G","E">>, <<"H","G","N">>, <<"-","-">>, <<"H","H","Z">>, 13, -3)

---------------------------------------------------------------------------
(* SeedlinkInfoSocket: the records on the wire *)

RECORD_LENGTH == 520
TAG_LENGTH == 8
HEADER_LENGTH == 3

\* Buffer.from("SLINFO  "): the tag of the final record; "SLINFO *" is the
\* tag of a record that is followed by another
SLEND == <<"S", "L", "I", "N", "F", "O", " ", " ">>
SLMORE == <<"S", "L", "I", "N", "F", "O", " ", "*">>

Min(a, b) == IF a <= b THEN a ELSE b

\* The number-of-samples field of a record header, in decimal digits
HeaderDigits(n) ==
    <<DigitSeq[(n \div 100) + 1], DigitSeq[((n \div 10) % 10) + 1], DigitSeq[(n % 10) + 1]>>

Padding(n) == [i \in 1..n |-> " "]

\* One record of a server: the tag, then a 512-byte miniSEED log record of
\* which the header declares n characters of data; the data follow the
\* header and the record is padded to its length.
SeedlinkRecord(tag, n, data) ==
    tag \o HeaderDigits(n) \o data
        \o Padding(RECORD_LENGTH - TAG_LENGTH - HEADER_LENGTH - Len(data))

\* new mSEEDRecord(bytes).data of an ASCII encoded record: the characters
\* the header declares, read from where the data start, out of the bytes
\* that were handed over (a Buffer slice ends where the Buffer ends).
mSEEDRecord(bytes) ==
    LET n == DecimalValue(SubSeq(bytes, 1, HEADER_LENGTH))
    IN  SubSeq(bytes, HEADER_LENGTH + 1, Min(HEADER_LENGTH + n, Len(bytes)))

---------------------------------------------------------------------------
(* SeedlinkInfoSocket.prototype.handleData *)

\* The while loop of handleData on the extended buffer: each pass pushes
\* the data of the record decoded from everything after the tag, returns
\* through finish(null) when the tag is SLEND, and slices the record off
\* otherwise.
RECURSIVE ReadRecordsPastEnd(_, _)
ReadRecordsPastEnd(buffer, records) ==
    IF Len(buffer) < RECORD_LENGTH
    THEN [buffer |-> buffer, records |-> records, finished |-> FALSE]
    ELSE LET pushed == Append(records, mSEEDRecord(SubSeq(buffer, TAG_LENGTH + 1, Len(buffer))))
             rest == ReadRecordsPastEnd(SubSeq(buffer, RECORD_LENGTH + 1, Len(buffer)), pushed)
         IN  [rest EXCEPT !.finished = @ \/ SubSeq(buffer, 1, TAG_LENGTH) = SLEND]

RECURSIVE ReadRecords(_, _)
ReadRecords(buffer, records) ==
    IF Len(buffer) < RECORD_LENGTH
    THEN [buffer |-> buffer, records |-> records, finished |-> FALSE]
    ELSE LET pushed == Append(records, mSEEDRecord(SubSeq(buffer, TAG_LENGTH + 1, Len(buffer))))
         IN  IF SubSeq(buffer, 1, TAG_LENGTH) = SLEND
             THEN [buffer |-> buffer, records |-> pushed, finished |-> TRUE]
             ELSE ReadRecords(SubSeq(buffer, RECORD_LENGTH + 1, Len(buffer)), pushed)

handleData(buffer, records, data) == ReadRecords(buffer \o data, records)

---------------------------------------------------------------------------
(* SeedlinkInfoSocket.prototype.parseRecords *)

\* The elements of the documents of the model, one token each
StationElements == {"<station GE MARCO>", "<station NL HGN>"}
StreamElements == {"<stream D  HHZ 5>", "<stream E  HHZ 5>", "<stream D 00 BHZ 10>"}

StationAttr(token) ==
    IF token = "<station GE MARCO>"
    THEN [network |-> <<"G","E">>, name |-> <<"M","A","R","C","O">>]
    ELSE [network |-> <<"N","L">>, name |-> <<"H","G","N">>]

\* end_time is given as the instant Date.parse makes of it
StreamAttr(token) ==
    CASE token = "<stream D  HHZ 5>" ->
            [type |-> "D", location |-> <<>>, seedname |-> <<"H","H","Z">>, end_time |-> 5]
      [] token = "<stream E  HHZ 5>" ->
            [type |-> "E", location |-> <<>>, seedname |-> <<"H","H","Z">>, end_time |-> 5]
      [] OTHER ->
            [type |-> "D", location |-> <<"0","0">>, seedname |-> <<"B","H","Z">>, end_time |-> 10]

\* records.join("")
RECURSIVE Join(_)
Join(records) ==
    IF records = <<>> THEN <<>> ELSE Head(records) \o Join(Tail(records))

RECURSIVE WalkDocumentAllTypes(_, _, _, _, _, _)
WalkDocumentAllTypes(doc, i, mode, station, current, out) ==
    IF i > Len(doc)
    THEN [throws |-> mode # "closed", latencies |-> out]
    ELSE LET token == doc[i]
         IN  CASE mode = "start" /\ token = "<seedlink>" ->
                    WalkDocumentAllTypes(doc, i + 1, "root", station, current, out)
               [] mode = "root" /\ token \in StationElements ->
                    WalkDocumentAllTypes(doc, i + 1, "station", StationAttr(token), current, out)
               [] mode = "root" /\ token = "</seedlink>" ->
                    WalkDocumentAllTypes(doc, i + 1, "closed", station, current, out)
               [] mode = "station" /\ token \in StreamElements ->
                    WalkDocumentAllTypes(doc, i + 1, mode, station, current,
                        Append(out, Rec(station.network, station.name,
                                        StreamAttr(token).location, StreamAttr(token).seedname,
                                        StreamAttr(token).end_time,
                                        current - StreamAttr(token).end_time)))
               [] mode = "station" /\ token = "</station>" ->
                    WalkDocumentAllTypes(doc, i + 1, "root", station, current, out)
               [] OTHER -> [throws |-> TRUE, latencies |-> <<>>]

\* libxmljs.parseXmlString(...).root().childNodes().forEach(...): the walk
\* over the station elements and their stream elements, in document order.
\* A document that is not one closed root element of closed station
\* elements makes parseXmlString throw.
RECURSIVE WalkDocument(_, _, _, _, _, _)
WalkDocument(doc, i, mode, station, current, out) ==
    IF i > Len(doc)
    THEN [throws |-> mode # "closed", latencies |-> out]
    ELSE LET token == doc[i]
         IN  CASE mode = "start" /\ token = "<seedlink>" ->
                    WalkDocument(doc, i + 1, "root", station, current, out)
               [] mode = "root" /\ token \in StationElements ->
                    WalkDocument(doc, i + 1, "station", StationAttr(token), current, out)
               [] mode = "root" /\ token = "</seedlink>" ->
                    WalkDocument(doc, i + 1, "closed", station, current, out)
               [] mode = "station" /\ token \in StreamElements ->
                    LET stream == StreamAttr(token)
                    IN  IF stream.type # "D"
                        THEN WalkDocument(doc, i + 1, mode, station, current, out)
                        ELSE WalkDocument(doc, i + 1, mode, station, current,
                                 Append(out, Rec(station.network, station.name,
                                                 stream.location, stream.seedname,
                                                 stream.end_time,
                                                 current - stream.end_time)))
               [] mode = "station" /\ token = "</station>" ->
                    WalkDocument(doc, i + 1, "root", station, current, out)
               [] OTHER -> [throws |-> TRUE, latencies |-> <<>>]

NoStation == [network |-> <<>>, name |-> <<>>]

\* parseRecords(records) at the instant current = new Date()
parseRecords(records, current) ==
    IF Len(records) = 0
    THEN [throws |-> FALSE, latencies |-> <<>>]
    ELSE WalkDocument(Join(records), 1, "start", NoStation, current, <<>>)

---------------------------------------------------------------------------
(* The servers the proxy polls *)

DocMarco ==
    <<"<seedlink>", "<station GE MARCO>", "<stream D  HHZ 5>", "<stream E  HHZ 5>",
      "</station>", "</seedlink>">>

DocHead == <<"<seedlink>", "<station GE MARCO>", "<stream D  HHZ 5>", "</station>">>
DocTail == <<"<station NL HGN>", "<stream D 00 BHZ 10>", "</station>", "</seedlink>">>

\* A response of one record, of two records, one whose document is not
\* closed, and one that stops before the final record
StreamOne == SeedlinkRecord(SLEND, Len(DocMarco), DocMarco)
StreamTwo == SeedlinkRecord(SLMORE, Len(DocHead), DocHead)
                \o SeedlinkRecord(SLEND, Len(DocTail), DocTail)
StreamUnclosed == SeedlinkRecord(SLEND, 2, SubSeq(DocMarco, 1, 2))
StreamPartial == SeedlinkRecord(SLMORE, Len(DocHead), DocHead)

\* A response of three records; one whose first record declares more data
\* than a record holds; one with bytes after the final record
DocMiddle == <<"<station NL HGN>", "<stream D 00 BHZ 10>", "</station>">>
StreamThree == SeedlinkRecord(SLMORE, Len(DocHead), DocHead)
                  \o SeedlinkRecord(SLMORE, Len(DocMiddle), DocMiddle)
                  \o SeedlinkRecord(SLEND, 1, <<"</seedlink>">>)
StreamOverrun == SeedlinkRecord(SLMORE, RECORD_LENGTH - TAG_LENGTH - HEADER_LENGTH + 1, DocHead)
                    \o SeedlinkRecord(SLEND, Len(DocTail), DocTail)
StreamTrailing == StreamOne \o SLMORE

\* A response that goes on with a whole record after its final record
StreamTwice == StreamOne \o StreamOne

\* What a server does with one connection: the bytes it sends, and whether
\* it refuses the connection, resets it at some moment, closes it once the
\* bytes are sent, or keeps it open without sending anything more
EndpointScripts ==
    {[stream |-> <<>>, ending |-> "refuse"],
     [stream |-> StreamOne, ending |-> "hang"],
     [stream |-> StreamTwo, ending |-> "hang"],
     [stream |-> StreamUnclosed, ending |-> "hang"],
     [stream |-> StreamPartial, ending |-> "hang"],
     [stream |-> StreamPartial, ending |-> "reset"],
     [stream |-> StreamPartial, ending |-> "end"]}

NoEndpoint == [stream |-> <<>>, sent |-> 0, ending |-> "hang"]

\* The positions of a stream at which a chunk may end: the given offsets
\* after a record boundary, and the end of the stream
ChunkEnds(total, offsets) ==
    {p \in 1..total : p % RECORD_LENGTH \in offsets} \cup ({total} \ {0})

\* The chunks of the whole program end at a record boundary or three bytes
\* after one
PollOffsets == {0, 3}

\* new Date() of parseRecords: the reading of the clock at a decode
Instants == {10}

---------------------------------------------------------------------------
(* The refresh cycle: refreshCacheFull, its next(), setLatencyCache *)

\* What setLatencyCache assigns to this.cachedLatencies
NewCacheUnsorted(config, merged) == merged

NewCache(config, merged) ==
    IF config.__SORT__ THEN SortLatencies(merged) ELSE merged

\* new SeedlinkInfoSocket() and socket.connect(...); called counts the
\* calls of the callback given to getLatencies
NoSocket ==
    [state |-> "none", buffer |-> <<>>, records |-> <<>>, written |-> 0, called |-> 0]
NewSocket ==
    [state |-> "connecting", buffer |-> <<>>, records |-> <<>>, written |-> 0, called |-> 0]

destroyOmitted(sock) == sock

\* this.socket.destroy() of finish: the socket emits no event afterwards
destroy(sock) == [sock EXCEPT !.state = "destroyed"]

\* next(): with no server left the merged list is published by
\* setLatencyCache (sorted in place when __SORT__) and the timer armed;
\* otherwise the last server of the list is popped and getLatencies opens a
\* socket to it. log and done are the history of the cycle and the socket
\* the caller leaves behind; pending is the timer as the caller leaves it.
NextServerEager(merged, remaining, log, done, pending) ==
    IF Len(remaining) <= 1
    THEN /\ cachedLatencies' = NewCache(configuration, merged)
         /\ published' = TRUE
         /\ latencies' = NewCache(configuration, merged)
         /\ servers' = remaining
         /\ server' = 0
         /\ pc' = "waiting"
         /\ timer' = 0
         /\ sincePublish' = 0
         /\ cycleLog' = log
         /\ completedLog' = log
         /\ socket' = done.socket
         /\ endpoint' = done.endpoint
    ELSE /\ server' = remaining[Len(remaining)]
         /\ servers' = SubSeq(remaining, 1, Len(remaining) - 1)
         /\ latencies' = merged
         /\ pc' = "polling"
         /\ timer' = pending
         /\ cycleLog' = log
         /\ socket' = NewSocket
         /\ \E script \in EndpointScripts :
                endpoint' = [stream |-> script.stream, sent |-> 0, ending |-> script.ending]
         /\ UNCHANGED <<cachedLatencies, published, sincePublish, completedLog>>

NextServerArmsAtStart(merged, remaining, log, done, pending) ==
    IF Len(remaining) = 0
    THEN /\ cachedLatencies' = NewCache(configuration, merged)
         /\ published' = TRUE
         /\ latencies' = NewCache(configuration, merged)
         /\ servers' = remaining
         /\ server' = 0
         /\ pc' = "waiting"
         /\ timer' = IF pending >= 0 THEN pending ELSE 0
         /\ sincePublish' = 0
         /\ cycleLog' = log
         /\ completedLog' = log
         /\ socket' = done.socket
         /\ endpoint' = done.endpoint
    ELSE /\ server' = remaining[Len(remaining)]
         /\ servers' = SubSeq(remaining, 1, Len(remaining) - 1)
         /\ latencies' = merged
         /\ pc' = "polling"
         /\ timer' = IF log = <<>> THEN 0 ELSE pending
         /\ cycleLog' = log
         /\ socket' = NewSocket
         /\ \E script \in EndpointScripts :
                endpoint' = [stream |-> script.stream, sent |-> 0, ending |-> script.ending]
         /\ UNCHANGED <<cachedLatencies, published, sincePublish, completedLog>>

NextServer(merged, remaining, log, done, pending) ==
    IF Len(remaining) = 0
    THEN /\ cachedLatencies' = NewCache(configuration, merged)
         /\ published' = TRUE
         /\ latencies' = NewCache(configuration, merged)
         /\ servers' = remaining
         /\ server' = 0
         /\ pc' = "waiting"
         /\ timer' = 0
         /\ sincePublish' = 0
         /\ cycleLog' = log
         /\ completedLog' = log
         /\ socket' = done.socket
         /\ endpoint' = done.endpoint
    ELSE /\ server' = remaining[Len(remaining)]
         /\ servers' = SubSeq(remaining, 1, Len(remaining) - 1)
         /\ latencies' = merged
         /\ pc' = "polling"
         /\ timer' = pending
         /\ cycleLog' = log
         /\ socket' = NewSocket
         /\ \E script \in EndpointScripts :
                endpoint' = [stream |-> script.stream, sent |-> 0, ending |-> script.ending]
         /\ UNCHANGED <<cachedLatencies, published, sincePublish, completedLog>>

RefreshCacheFullRearms ==
    /\ pc # "terminated"
    /\ timer >= configuration.REFRESH_INTERVAL
    /\ NextServer(<<>>, configuration.servers, <<>>,
                  [socket |-> socket, endpoint |-> endpoint], 0)
    /\ UNCHANGED <<configuration, httpVars, wcVars>>

RefreshCacheFullConsumes ==
    /\ pc # "terminated"
    /\ timer >= configuration.REFRESH_INTERVAL
    /\ NextServer(<<>>, configuration.servers, <<>>,
                  [socket |-> socket, endpoint |-> endpoint], -1)
    /\ configuration' = [configuration EXCEPT !.servers = SubSeq(@, 1, Len(@) - 1)]
    /\ UNCHANGED <<httpVars, wcVars>>

\* The timer of setLatencyCache fires after REFRESH_INTERVAL:
\* refreshCacheFull starts a cycle on a copy of the configured list and
\* calls next().
RefreshCacheFull ==
    /\ pc # "terminated"
    /\ timer >= configuration.REFRESH_INTERVAL
    /\ NextServer(<<>>, configuration.servers, <<>>,
                  [socket |-> socket, endpoint |-> endpoint], -1)
    /\ UNCHANGED <<configuration, httpVars, wcVars>>

\* Time passes: the pending timer and the time since the last publication
\* advance, up to the interval
Tick ==
    /\ pc # "terminated"
    /\ \/ timer >= 0 /\ timer < configuration.REFRESH_INTERVAL
       \/ sincePublish >= 0 /\ sincePublish < configuration.REFRESH_INTERVAL
    /\ timer' = IF timer >= 0 /\ timer < configuration.REFRESH_INTERVAL
                THEN timer + 1 ELSE timer
    /\ sincePublish' = IF sincePublish >= 0 /\ sincePublish < configuration.REFRESH_INTERVAL
                       THEN sincePublish + 1 ELSE sincePublish
    /\ UNCHANGED <<configuration, cachedLatencies, published, servers, latencies, server,
                   pc, socket, endpoint, cycleLog, completedLog, httpVars, wcVars>>

PollCallbackPrepends(error, result, done) ==
    /\ pc # "terminated"
    /\ NextServer(IF error = "null" THEN result \o latencies ELSE latencies, servers,
                  Append(cycleLog, [server |-> server, error |-> error, result |-> result,
                                    closed |-> done.socket.state = "destroyed"]),
                  [done EXCEPT !.socket.called = @ + 1], timer)
    /\ UNCHANGED <<configuration, httpVars, wcVars>>

PollCallbackRetries(error, result, done) ==
    /\ pc # "terminated"
    /\ NextServer(IF error = "null" THEN latencies \o result ELSE latencies,
                  IF error = "null" THEN servers ELSE Append(servers, server),
                  Append(cycleLog, [server |-> server, error |-> error, result |-> result,
                                    closed |-> done.socket.state = "destroyed"]),
                  [done EXCEPT !.socket.called = @ + 1], timer)
    /\ UNCHANGED <<configuration, httpVars, wcVars>>

\* The callback of getLatencies: the result is appended when error is null,
\* and next() is called either way, whatever the cycle is doing.
PollCallback(error, result, done) ==
    /\ pc # "terminated"
    /\ NextServer(IF error = "null" THEN latencies \o result ELSE latencies, servers,
                  Append(cycleLog, [server |-> server, error |-> error, result |-> result,
                                    closed |-> done.socket.state = "destroyed"]),
                  [done EXCEPT !.socket.called = @ + 1], timer)
    /\ UNCHANGED <<configuration, httpVars, wcVars>>

---------------------------------------------------------------------------
(* The events of the socket: its listeners run while the socket lives,    *)
(* whatever the cycle is doing.                                            *)

ConnectWritesNothing ==
    /\ pc # "terminated"
    /\ socket.state = "connecting"
    /\ endpoint.ending # "refuse"
    /\ socket' = [socket EXCEPT !.state = "open"]
    /\ UNCHANGED <<configuration, cachedLatencies, published, servers, latencies, server,
                   pc, endpoint, timer, sincePublish, cycleLog, completedLog,
                   httpVars, wcVars>>

\* The connect listener of getLatencies: this.write(SLINFO)
Connect ==
    /\ pc # "terminated"
    /\ socket.state = "connecting"
    /\ endpoint.ending # "refuse"
    /\ socket' = [socket EXCEPT !.state = "open", !.written = @ + 1]
    /\ UNCHANGED <<configuration, cachedLatencies, published, servers, latencies, server,
                   pc, endpoint, timer, sincePublish, cycleLog, completedLog,
                   httpVars, wcVars>>

\* The "error" event: finish(error) hands the error to the callback; the
\* socket that raised it is closed by the runtime.
SocketError(error) ==
    /\ \/ error = "ECONNREFUSED" /\ endpoint.ending = "refuse" /\ socket.state = "connecting"
       \/ error = "ECONNRESET" /\ endpoint.ending = "reset" /\ socket.state = "open"
    /\ PollCallback(error, <<>>,
                    [socket |-> [socket EXCEPT !.state = "destroyed"], endpoint |-> endpoint])

\* The server closes the connection after its last byte: the socket emits
\* "end" and "close", for which no listener is registered, and is closed;
\* neither finish nor the callback is called.
SocketEnd ==
    /\ pc # "terminated"
    /\ socket.state = "open"
    /\ endpoint.ending = "end"
    /\ endpoint.sent = Len(endpoint.stream)
    /\ socket' = [socket EXCEPT !.state = "closed"]
    /\ UNCHANGED <<configuration, cachedLatencies, published, servers, latencies, server,
                   pc, endpoint, timer, sincePublish, cycleLog, completedLog,
                   httpVars, wcVars>>

\* The "data" event with the bytes of the stream up to position p, the
\* clock reading one of instants:
\* handleData, and through it finish(null) when the final record is read:
\* socket.destroy(), parseRecords and the callback. An exception of
\* parseRecords is caught by nobody and ends the process.
SocketDataAt(p, instants) ==
    /\ pc # "terminated"
    /\ socket.state = "open"
    /\ p > endpoint.sent
    /\ p <= Len(endpoint.stream)
    /\ \E read \in {handleData(socket.buffer, socket.records,
                               SubSeq(endpoint.stream, endpoint.sent + 1, p))} :
         IF ~read.finished
         THEN /\ socket' = [socket EXCEPT !.buffer = read.buffer, !.records = read.records]
              /\ endpoint' = [endpoint EXCEPT !.sent = p]
              /\ UNCHANGED <<configuration, cachedLatencies, published, servers,
                             latencies, server, pc, timer, sincePublish, cycleLog,
                             completedLog, httpVars, wcVars>>
         ELSE \E current \in instants :
                \E parsed \in {parseRecords(read.records, current)} :
                  IF parsed.throws
                  THEN /\ pc' = "terminated"
                       /\ socket' = destroy([socket EXCEPT !.buffer = read.buffer,
                                                           !.records = read.records])
                       /\ endpoint' = [endpoint EXCEPT !.sent = p]
                       /\ UNCHANGED <<configuration, cachedLatencies, published,
                                      servers, latencies, server, timer,
                                      sincePublish, cycleLog, completedLog,
                                      httpVars, wcVars>>
                  ELSE PollCallback("null", parsed.latencies,
                                    [socket |-> destroy([socket EXCEPT
                                                             !.buffer = read.buffer,
                                                             !.records = read.records]),
                                     endpoint |-> [endpoint EXCEPT !.sent = p]])

\* The "data" event in the whole program
SocketData(p) == SocketDataAt(p, Instants)

---------------------------------------------------------------------------
(* Requests *)

Pathnames == {"/", "/version", "/swagger.yml", "/other"}
NoQuery == <<>>

\* The strings a request of the model may give to each key
QueryValues ==
    [k \in {"network", "station", "location", "channel", "min", "max", "format"} |->
        CASE k = "network"  -> {<<"G","E">>, <<"g","e">>, <<"G","?">>,
                                <<"G","E",",","G","?">>, <<"G","E","E">>}
          [] k = "station"  -> {<<"M","A","R","C","O">>, <<"*">>}
          [] k = "location" -> {<<"-","-">>, <<>>, <<"0","0">>, <<"-","-",",","0","0">>}
          [] k = "channel"  -> {<<"H","H","Z">>, <<"?","H","Z">>}
          [] k = "min"      -> {<<"0">>, <<"-","3">>, <<"1">>, <<>>, <<"a">>}
          [] k = "max"      -> {<<"0">>, <<"5">>, <<"4">>, <<"1",".","5">>}
          [] OTHER          -> {<<"x">>}]

QueriesOver(K) ==
    {q \in [K -> UNION {QueryValues[k] : k \in K}] : \A k \in K : q[k] \in QueryValues[k]}

\* querystring.parse(uri.query): the query objects of at most MaxQueryKeys keys
QueryObjects ==
    UNION {QueriesOver(K) : K \in {S \in SUBSET DOMAIN QueryValues : Cardinality(S) <= MaxQueryKeys}}

\* A request for "/" with any query, or for another path
AnyRequest ==
    \/ \E q \in QueryObjects : HTTPServer("/", q)
    \/ \E path \in Pathnames \ {"/"} : HTTPServer(path, NoQuery)

---------------------------------------------------------------------------
(* The proxy: Init is the state the constructor leaves, with the first     *)
(* cycle started.                                                          *)

\* The values of REFRESH_INTERVAL, in units of time
Intervals == {2}

Configurations ==
    {[__SORT__ |-> s, __CLOSED__ |-> c, REFRESH_INTERVAL |-> d, servers |-> [i \in 1..n |-> i]] :
        s \in BOOLEAN, c \in BOOLEAN, d \in Intervals, n \in 0..MaxServers}

NoRequest == [pathname |-> "", queryObject |-> NoQuery]

InitWaits ==
    /\ configuration \in Configurations
    /\ cachedLatencies = <<>>
    /\ published = FALSE
    /\ servers = <<>>
    /\ server = 0
    /\ pc = "waiting"
    /\ timer = 0
    /\ sincePublish = -1
    /\ socket = NoSocket
    /\ endpoint = NoEndpoint
    /\ latencies = <<>>
    /\ cycleLog = <<>>
    /\ completedLog = <<>>
    /\ request = NoRequest
    /\ observed = <<>>
    /\ response = Reply(0, "", NoBody)
    /\ wcCode = <<>>
    /\ wcPattern = <<>>
    /\ wcMatch = <<>>

Init ==
    /\ configuration \in Configurations
    /\ IF Len(configuration.servers) = 0
       THEN /\ cachedLatencies = <<>>
            /\ published = TRUE
            /\ servers = <<>>
            /\ server = 0
            /\ pc = "waiting"
            /\ timer = 0
            /\ sincePublish = 0
            /\ socket = NoSocket
            /\ endpoint = NoEndpoint
       ELSE /\ cachedLatencies = <<>>
            /\ published = FALSE
            /\ server = configuration.servers[Len(configuration.servers)]
            /\ servers = SubSeq(configuration.servers, 1, Len(configuration.servers) - 1)
            /\ pc = "polling"
            /\ timer = -1
            /\ sincePublish = -1
            /\ socket = NewSocket
            /\ \E script \in EndpointScripts :
                   endpoint = [stream |-> script.stream, sent |-> 0, ending |-> script.ending]
    /\ latencies = <<>>
    /\ cycleLog = <<>>
    /\ completedLog = <<>>
    /\ request = NoRequest
    /\ observed = <<>>
    /\ response = Reply(0, "", NoBody)
    /\ wcCode = <<>>
    /\ wcPattern = <<>>
    /\ wcMatch = <<>>

\* The requests of the whole-program model
MainQueries ==
    {NoQuery,
     [k \in {"network"} |-> <<"G","E">>],
     [k \in {"network"} |-> <<"G","E","E">>],
     [k \in {"location"} |-> <<"0","0">>],
     [k \in {"min"} |-> <<"a">>],
     [k \in {"format"} |-> <<"x">>]}

\* A request is answered as long as the process lives
Request ==
    /\ pc # "terminated"
    /\ \/ \E q \in MainQueries : HTTPServer("/", q)
       \/ \E path \in Pathnames \ {"/"} : HTTPServer(path, NoQuery)

\* The events of the poll that is outstanding
Poll ==
    \/ Connect
    \/ \E p \in ChunkEnds(Len(endpoint.stream), PollOffsets) : SocketData(p)
    \/ \E error \in {"ECONNREFUSED", "ECONNRESET"} : SocketError(error)
    \/ SocketEnd

Next ==
    \/ RefreshCacheFull
    \/ Tick
    \/ Poll
    \/ Request

Spec == Init /\ [][Next]_vars

\* The refresh loop on its own, without requests
NextRefresh ==
    \/ RefreshCacheFull
    \/ Tick
    \/ Poll

SpecRefresh == Init /\ [][NextRefresh]_vars

\* The refresh loop under the fairness of its environment: a timer that is
\* due fires, time passes, a server that accepts is connected to, bytes a
\* server sends arrive, an error a connection raises is reported, and a
\* connection the server closes is closed.
SpecRefreshFair ==
    /\ SpecRefresh
    /\ WF_vars(RefreshCacheFull)
    /\ WF_vars(Tick)
    /\ WF_vars(Connect)
    /\ WF_vars(\E p \in ChunkEnds(Len(endpoint.stream), PollOffsets) : SocketData(p))
    /\ WF_vars(\E error \in {"ECONNREFUSED", "ECONNRESET"} : SocketError(error))
    /\ WF_vars(SocketEnd)

\* The refresh loop with readers of the whole snapshot
Read == pc # "terminated" /\ HTTPServer("/", NoQuery)

NextReaders ==
    \/ RefreshCacheFull
    \/ Tick
    \/ Poll
    \/ Read

SpecReaders == Init /\ [][NextReaders]_vars

---------------------------------------------------------------------------
(* One connection and all its events: a server that sends a response, or   *)
(* more than a response, and hangs, resets or closes at any moment.        *)

EventScripts ==
    {[stream |-> <<>>, ending |-> "refuse"]}
        \cup {[stream |-> stream, ending |-> ending] :
                 stream \in {StreamOne, StreamTwo, StreamPartial, StreamTrailing,
                             StreamTwice},
                 ending \in {"hang", "reset", "end"}}

EventOffsets == {0, 3, 260, 519}

InitEvents ==
    /\ configuration = [__SORT__ |-> FALSE, __CLOSED__ |-> FALSE, REFRESH_INTERVAL |-> 2,
                        servers |-> <<1>>]
    /\ cachedLatencies = <<>>
    /\ published = FALSE
    /\ servers = <<>>
    /\ latencies = <<>>
    /\ server = 1
    /\ pc = "polling"
    /\ socket = NewSocket
    /\ \E script \in EventScripts :
           endpoint = [stream |-> script.stream, sent |-> 0, ending |-> script.ending]
    /\ timer = -1
    /\ sincePublish = -1
    /\ cycleLog = <<>>
    /\ completedLog = <<>>
    /\ request = NoRequest
    /\ observed = <<>>
    /\ response = Reply(0, "", NoBody)
    /\ wcCode = <<>>
    /\ wcPattern = <<>>
    /\ wcMatch = <<>>

NextEvents ==
    \/ Connect
    \/ \E p \in ChunkEnds(Len(endpoint.stream), EventOffsets) : SocketData(p)
    \/ \E error \in {"ECONNREFUSED", "ECONNRESET"} : SocketError(error)
    \/ SocketEnd

SpecEvents == InitEvents /\ [][NextEvents]_vars

---------------------------------------------------------------------------
(* The decoder on its own: one poll of a server that answers with one      *)
(* final record holding a document of stations and their streams.          *)

\* A station element with its stream elements
StationBlocks ==
    {<<station>> \o streams \o <<"</station>">> :
        station \in StationElements, streams \in SeqsUpTo(StreamElements, MaxStreams)}

\* The documents: the root element with no more stations than there are
\* station elements
DecoderDocuments ==
    {<<"<seedlink>">> \o Join(blocks) \o <<"</seedlink>">> :
        blocks \in SeqsUpTo(StationBlocks, Cardinality(StationElements))}

InitDecoder ==
    /\ configuration = [__SORT__ |-> FALSE, __CLOSED__ |-> FALSE, REFRESH_INTERVAL |-> 2,
                        servers |-> <<1>>]
    /\ cachedLatencies = <<>>
    /\ published = FALSE
    /\ servers = <<>>
    /\ latencies = <<>>
    /\ server = 1
    /\ pc = "polling"
    /\ socket = NewSocket
    /\ \E doc \in DecoderDocuments :
           endpoint = [stream |-> SeedlinkRecord(SLEND, Len(doc), doc), sent |-> 0,
                       ending |-> "hang"]
    /\ timer = -1
    /\ sincePublish = -1
    /\ cycleLog = <<>>
    /\ completedLog = <<>>
    /\ request = NoRequest
    /\ observed = <<>>
    /\ response = Reply(0, "", NoBody)
    /\ wcCode = <<>>
    /\ wcPattern = <<>>
    /\ wcMatch = <<>>

\* The readings of the clock at a decode: before, at and after the end
\* times of the streams
DecoderInstants == {7, 10, 12}

NextDecoder ==
    \/ Connect
    \/ \E p \in ChunkEnds(Len(endpoint.stream), PollOffsets) : SocketDataAt(p, DecoderInstants)

SpecDecoder == InitDecoder /\ [][NextDecoder]_vars

---------------------------------------------------------------------------
(* The query engine on its own: any snapshot a cycle without sorting can   *)
(* publish, and requests against it.                                       *)

RecordUniverse == {RecMarco, RecHgn, RecDash}

InitQuery ==
    /\ configuration = [__SORT__ |-> FALSE, __CLOSED__ |-> FALSE, REFRESH_INTERVAL |-> 1,
                        servers |-> <<1>>]
    /\ cachedLatencies \in SeqsUpTo(RecordUniverse, MaxSnapshot)
    /\ published = TRUE
    /\ servers = <<>>
    /\ latencies = cachedLatencies
    /\ server = 0
    /\ pc = "waiting"
    /\ socket = NoSocket
    /\ endpoint = NoEndpoint
    /\ timer = 0
    /\ sincePublish = 0
    /\ cycleLog = <<>>
    /\ completedLog = <<>>
    /\ request = NoRequest
    /\ observed = <<>>
    /\ response = Reply(0, "", NoBody)
    /\ wcCode = <<>>
    /\ wcPattern = <<>>
    /\ wcMatch = <<>>

\* One request per behaviour: the snapshot is drawn by InitQuery
NextQuery == request = NoRequest /\ AnyRequest

SpecQuery == InitQuery /\ [][NextQuery]_vars

---------------------------------------------------------------------------
(* The framer on its own: one poll of one server, its stream cut into      *)
(* chunks at more places.                                                  *)

FramerStreams ==
    {StreamOne, StreamTwo, StreamThree, StreamPartial, StreamOverrun, StreamTrailing,
     StreamTwice}

FramerOffsets == {0, 1, 3, 8, 9, 11, 260, 517, 519}

InitFramer ==
    /\ configuration = [__SORT__ |-> FALSE, __CLOSED__ |-> FALSE, REFRESH_INTERVAL |-> 2,
                        servers |-> <<1>>]
    /\ cachedLatencies = <<>>
    /\ published = FALSE
    /\ servers = <<>>
    /\ latencies = <<>>
    /\ server = 1
    /\ pc = "polling"
    /\ socket = NewSocket
    /\ \E stream \in FramerStreams :
           endpoint = [stream |-> stream, sent |-> 0, ending |-> "hang"]
    /\ timer = -1
    /\ sincePublish = -1
    /\ cycleLog = <<>>
    /\ completedLog = <<>>
    /\ request = NoRequest
    /\ observed = <<>>
    /\ response = Reply(0, "", NoBody)
    /\ wcCode = <<>>
    /\ wcPattern = <<>>
    /\ wcMatch = <<>>

NextFramer ==
    \/ Connect
    \/ \E p \in ChunkEnds(Len(endpoint.stream), FramerOffsets) : SocketData(p)

SpecFramer == InitFramer /\ [][NextFramer]_vars

---------------------------------------------------------------------------
(* The wildcard matcher on its own: inputs drawn at Init, the call as the   *)
(* one action.                                                              *)

PatternChars == {"G", "g", "?", "*"}
CodeChars == {"G", "g", "1"}

InitWildcard ==
    /\ wcCode \in SeqsUpTo(CodeChars, MaxCodeLen)
    /\ wcPattern \in SeqsUpTo(PatternChars, MaxPatternLen)
    /\ wcMatch = <<>>
    /\ configuration = [__SORT__ |-> FALSE, __CLOSED__ |-> FALSE, REFRESH_INTERVAL |-> 1,
                        servers |-> <<>>]
    /\ cachedLatencies = <<>>
    /\ published = FALSE
    /\ servers = <<>>
    /\ latencies = <<>>
    /\ server = 0
    /\ pc = "waiting"
    /\ socket = NoSocket
    /\ endpoint = NoEndpoint
    /\ timer = 0
    /\ sincePublish = 0
    /\ cycleLog = <<>>
    /\ completedLog = <<>>
    /\ request = NoRequest
    /\ observed = <<>>
    /\ response = Reply(0, "", NoBody)

TestWildcard ==
    /\ wcMatch = <<>>
    /\ wcMatch' = <<testWildcard(wcCode, wcPattern)>>
    /\ UNCHANGED <<wcCode, wcPattern, progVars, httpVars>>

NextWildcard == TestWildcard

SpecWildcard == InitWildcard /\ [][NextWildcard]_vars

---------------------------------------------------------------------------
(* Reference semantics of a wildcard pattern, by recursion on the pattern:  *)
(* "*" takes zero or more characters, "?" exactly one, anything else is     *)
(* itself, and the whole value must be used up.                             *)

RECURSIVE WildMatch(_, _)
WildMatch(p, s) ==
    IF p = <<>> THEN s = <<>>
    ELSE IF Head(p) = "*"
         THEN WildMatch(Tail(p), s) \/ (s # <<>> /\ WildMatch(p, Tail(s)))
         ELSE /\ s # <<>>
              /\ (Head(p) = "?" \/ Head(p) = Head(s))
              /\ WildMatch(Tail(p), Tail(s))

\* C2: field matching is case-insensitive: a pattern that passes validation
\* matches a value exactly when their upper-cased forms match.
C2_CaseInsensitive ==
    (wcMatch # <<>> /\ isValidParameter("station", wcPattern))
        => (wcMatch[1] = testWildcard(ToUpperCase(wcCode), ToUpperCase(wcPattern)))

\* C3: wildcard matching is anchored on the whole value: testWildcard agrees
\* with the reference semantics ("?" one character, "*" zero or more, no
\* match on a prefix, suffix or inner substring only).
C3_AnchoredWildcard ==
    wcMatch # <<>> => (wcMatch[1] = WildMatch(wcPattern, wcCode))

\* "G?" is tested against "G11" and does not match, though it matches its prefix
C3_Witness ==
    /\ wcPattern = <<"G", "?">>
    /\ wcCode = <<"G", "1", "1">>
    /\ wcMatch = <<FALSE>>

---------------------------------------------------------------------------
(* The query engine: what a request that reached it was answered *)

\* The request was for "/" and was answered from the query engine: 200 with
\* the filtered list, or 204 when that list (or the cache) is empty
Answered == request.pathname = "/" /\ response.statusCode \in {200, 204}

\* A constraint is supplied when the query has the key with a value
Supplied(q, key) == key \in DOMAIN q /\ q[key] # <<>>

Without(q, key) == [k \in DOMAIN q \ {key} |-> q[k]]

\* The integer a validated bound stands for
BoundValue(value) ==
    LET n == Number(value) IN IF n.neg THEN -n.whole ELSE n.whole

\* Reference filter of C1, in the reading most favourable to the code:
\* exact characters, and a location item "--" standing for the empty item.
RefItems(q, key) ==
    LET items == Split(q[key])
    IN  {IF key = "location" /\ items[i] = <<"-", "-">> THEN <<>> ELSE items[i] :
            i \in DOMAIN items}

RefFieldOk(q, key, value) ==
    Supplied(q, key) => \E item \in RefItems(q, key) : WildMatch(item, value)

RefKeep(r, q) ==
    /\ RefFieldOk(q, "network", r.network)
    /\ RefFieldOk(q, "station", r.station)
    /\ RefFieldOk(q, "location", r.location)
    /\ RefFieldOk(q, "channel", r.channel)
    /\ (Supplied(q, "min") => r.msLatency >= BoundValue(q["min"]))
    /\ (Supplied(q, "max") => r.msLatency <= BoundValue(q["max"]))

RefFilter(cache, q) == SelectSeq(cache, LAMBDA r : RefKeep(r, q))

\* C1: for every snapshot and every validated query the result is that of
\* the brute-force reference filter: a record is returned iff each supplied
\* field matches at least one of its patterns and each supplied bound holds.
C1_ReferenceFilter ==
    (Answered /\ validateParameters(request.queryObject) = "ok")
        => response.body = RefFilter(observed, request.queryObject)

\* C4: a query with no field pattern and no bound returns the whole
\* snapshot, in its order.
C4_NoConstraintReturnsAll ==
    (/\ request.pathname = "/"
     /\ validateParameters(request.queryObject) = "ok"
     /\ \A k \in ALLOWED_PARAMETERS : ~Supplied(request.queryObject, k))
        => /\ response.body = observed
           /\ response.statusCode = IF observed = <<>> THEN 204 ELSE 200

\* The empty query against a snapshot of two different records
C4_Witness ==
    /\ request.pathname = "/"
    /\ request.queryObject = NoQuery
    /\ Len(observed) = 2
    /\ observed[1] # observed[2]
    /\ observed[1].msLatency > observed[2].msLatency
    /\ response.statusCode = 200

C6_BoundsWithoutPatterns ==
    (/\ Answered
     /\ validateParameters(request.queryObject) = "ok"
     /\ DOMAIN request.queryObject # {}
     /\ DOMAIN request.queryObject \subseteq {"min", "max"})
        => response.body =
              SelectSeq(observed, LAMBDA r :
                  /\ Supplied(request.queryObject, "min")
                        => BoundValue(request.queryObject["min"]) <= r.msLatency
                  /\ Supplied(request.queryObject, "max")
                        => r.msLatency <= BoundValue(request.queryObject["max"]))

\* min=0 alone: the record at 0 is kept and the one below 0 is dropped
C6_Witness ==
    /\ request.pathname = "/"
    /\ request.queryObject = [k \in {"min"} |-> <<"0">>]
    /\ observed = <<RecDash, RecHgn>>
    /\ response.statusCode = 200
    /\ response.body = <<RecHgn>>

RECURSIVE IsSubsequence(_, _)
IsSubsequence(a, b) ==
    IF a = <<>> THEN TRUE
    ELSE IF b = <<>> THEN FALSE
    ELSE IF Head(a) = Head(b) THEN IsSubsequence(Tail(a), Tail(b))
    ELSE IsSubsequence(a, Tail(b))

\* C7: the result of every query is a subsequence of the snapshot it read:
\* same relative order, nothing duplicated.
C7_ResultIsSubsequence ==
    Answered => IsSubsequence(response.body, observed)

\* A filtering query that keeps two different records of the snapshot
C7_Witness ==
    /\ request.pathname = "/"
    /\ Supplied(request.queryObject, "channel")
    /\ Len(observed) = 2
    /\ observed[1] # observed[2]
    /\ response.statusCode = 200
    /\ response.body = observed

---------------------------------------------------------------------------
(* The snapshot before and after the first publication *)

\* this.cachedLatencies as the constructor leaves it
InitialCache == <<>>

\* C8: the state before the first publication can be told apart, by a
\* reader of the snapshot, from a published snapshot of zero records: no
\* published snapshot equals what is read before the first publication.
C8_UnpopulatedDistinct ==
    /\ ~published => cachedLatencies = InitialCache
    /\ published => cachedLatencies # InitialCache

\* C9: a valid query that matches no record of a populated snapshot is not
\* answered as the same query is against the unpopulated snapshot.
C9_NotReadyDistinct ==
    (/\ request.pathname = "/"
     /\ ~configuration.__CLOSED__
     /\ observed # <<>>
     /\ validateParameters(request.queryObject) = "ok"
     /\ filterLatencies(observed, request.queryObject) = <<>>)
        => response # HTTPServerResponse(configuration, InitialCache, "/", request.queryObject)

\* C10: a query that validation does not accept (unsupported field, pattern
\* outside the grammar, non-integer bound) is answered with a validation
\* error, whatever the snapshot.
C10_InvalidRejected ==
    (/\ request.pathname = "/"
     /\ ~configuration.__CLOSED__
     /\ validateParameters(request.queryObject) # "ok")
        => response.statusCode = 400

---------------------------------------------------------------------------
(* The refresh cycle: what is polled, merged and published *)

\* The records of the polls of a cycle that reported no error, in the order
\* of the polls
RECURSIVE Successes(_)
Successes(log) ==
    IF log = <<>> THEN <<>>
    ELSE (IF Head(log).error = "null" THEN Head(log).result ELSE <<>>) \o Successes(Tail(log))

\* The servers a cycle has polled or is polling, with those still to poll
Accounted ==
    Len(cycleLog) + Len(servers) + (IF pc = "polling" THEN 1 ELSE 0)

\* C11: the failure of a server does not abort the cycle. While a cycle
\* runs, every configured server has been polled, is being polled or is
\* still to be polled, and the list merged so far holds exactly the records
\* of the polls that succeeded; the snapshot a cycle publishes is made of
\* the records of its successful polls, all configured servers polled; and
\* no cycle is given up with servers left to poll.
C11_FailureDoesNotAbort ==
    /\ pc = "polling" =>
          /\ Accounted = Len(configuration.servers)
          /\ latencies = Successes(cycleLog)
    /\ published =>
          /\ Len(completedLog) = Len(configuration.servers)
          /\ {completedLog[i].server : i \in DOMAIN completedLog}
                = {configuration.servers[i] : i \in DOMAIN configuration.servers}
          /\ cachedLatencies = NewCache(configuration, Successes(completedLog))
    /\ servers # <<>> => pc = "polling"

\* The snapshot the last cycle that published has made, and the one read
\* before any cycle has published
CompleteSnapshot ==
    IF published THEN NewCache(configuration, Successes(completedLog)) ELSE InitialCache

\* C12: whenever a request is handled, also while a cycle is running, what
\* it reads is the complete snapshot of the last cycle that published (the
\* previous cycle while one is running, the new one once it has published):
\* never the list being merged, and sorted when sorting is configured; and a
\* request can be handled in every state of a cycle.
C12_ReadersSeeCompleteSnapshot ==
    [][/\ pc # "terminated" => ENABLED Read
       /\ httpVars' # httpVars =>
             /\ observed' = CompleteSnapshot
             /\ pc \in {"polling", "waiting"}
             /\ pc' = pc]_vars

\* A request answered from the previous snapshot while the running cycle
\* has merged the records of one server
C12_Witness ==
    /\ pc = "polling"
    /\ Len(cycleLog) = 1
    /\ latencies # <<>>
    /\ latencies # cachedLatencies
    /\ request.pathname = "/"
    /\ response.statusCode = 200
    /\ observed = cachedLatencies
    /\ response.body = cachedLatencies

\* A step in which setLatencyCache runs
Publishes == sincePublish' = 0 /\ sincePublish # 0

\* C13: the snapshot is replaced only by a step after which every
\* configured server of the cycle has reported records or failure and no
\* poll is outstanding.
C13_PublishAfterAllOutcomes ==
    [][(cachedLatencies' # cachedLatencies \/ published' # published \/ Publishes) =>
          /\ Len(cycleLog') = Len(configuration.servers)
          /\ servers' = <<>>
          /\ pc' = "waiting"
          /\ socket'.state \notin {"connecting", "open"}]_vars

\* A cycle over two servers has published
C13_Witness ==
    /\ published
    /\ pc = "waiting"
    /\ Len(configuration.servers) = 2
    /\ Len(completedLog) = 2
    /\ cachedLatencies # <<>>

IsSorted(seq) ==
    \A i \in 1..(Len(seq) - 1) : seq[i].msLatency <= seq[i + 1].msLatency

\* C14: with __SORT__ every published snapshot is in non-decreasing order of
\* msLatency; without it the snapshot is the merged list in its order.
C14_SortedWhenConfigured ==
    published =>
        /\ configuration.__SORT__ => IsSorted(cachedLatencies)
        /\ ~configuration.__SORT__ => cachedLatencies = Successes(completedLog)

\* A published snapshot that the sort has reordered
C14_Witness ==
    /\ published
    /\ configuration.__SORT__
    /\ ~IsSorted(Successes(completedLog))
    /\ Len(cachedLatencies) = Len(Successes(completedLog))

\* A step in which a cycle starts from a pending timer
CycleStarts == timer >= 0 /\ timer' \in {-1, 0} /\ timer' # timer

\* C15: a timer is armed only by a step that publishes, and a cycle started
\* by the timer starts no sooner than REFRESH_INTERVAL after the previous
\* cycle published.
C15_DelayFromCompletion ==
    [][/\ (timer' = 0 /\ timer # 0) => Publishes
       /\ CycleStarts => sincePublish >= configuration.REFRESH_INTERVAL]_vars

\* A second cycle is running, started when the interval had passed
C15_Witness ==
    /\ pc = "polling"
    /\ published
    /\ timer = -1
    /\ sincePublish = configuration.REFRESH_INTERVAL

---------------------------------------------------------------------------
(* The refresh loop goes on *)

\* C16: whatever the servers do, every cycle that started publishes, and
\* cycles keep being started: a timer is armed again and again.
C16_RefreshLoopNeverStops ==
    /\ (pc = "polling") ~> (pc = "waiting")
    /\ []<>(timer = 0)

\* The k+1st poll of a cycle is connected to a server that has sent all it
\* will send, without a final record, and keeps the connection open
Stalled(k) ==
    /\ pc = "polling"
    /\ Len(cycleLog) = k
    /\ socket.state = "open"
    /\ endpoint.ending = "hang"
    /\ endpoint.sent = Len(endpoint.stream)

\* C17: a poll of a server that stays silent ends, as a failure of that
\* server, and the cycle goes on.
C17_PollTimeBounded ==
    \A k \in 0..(MaxServers - 1) :
        Stalled(k) ~> (Len(cycleLog) = k + 1 /\ cycleLog[k + 1].error # "null")

\* The socket has read a final record, and its records do not join to a
\* document
Undecodable ==
    /\ socket.records # <<>>
    /\ Len(socket.buffer) >= RECORD_LENGTH
    /\ SubSeq(socket.buffer, 1, TAG_LENGTH) = SLEND
    /\ \A current \in Instants : parseRecords(socket.records, current).throws

\* C18: a response that cannot be parsed is a failure of its poll alone:
\* the poll is recorded as failed with no records, and the process and the
\* cycle go on.
C18_DecodeFailureScoped ==
    Undecodable =>
        /\ pc \in {"polling", "waiting"}
        /\ cycleLog # <<>>
        /\ cycleLog[Len(cycleLog)].error # "null"
        /\ cycleLog[Len(cycleLog)].result = <<>>

---------------------------------------------------------------------------
(* The framer *)

\* The bytes the socket has received
Received == SubSeq(endpoint.stream, 1, endpoint.sent)

\* The k-th record of the stream
RecordAt(k) == SubSeq(endpoint.stream, RECORD_LENGTH * (k - 1) + 1, RECORD_LENGTH * k)

C20_OneChunkPerRecord ==
    /\ \A k \in DOMAIN socket.records :
          socket.records[k]
              = mSEEDRecord(SubSeq(RecordAt(k), TAG_LENGTH + 1, RECORD_LENGTH))
    /\ socket.buffer
          = SubSeq(Received, RECORD_LENGTH * Len(socket.records) + 1, Len(Received))

---------------------------------------------------------------------------
(* After the final record *)

\* The place among the whole records of the bytes of the first one tagged
\* SLEND, 0 when there is none
RECURSIVE FirstFinal(_, _)
FirstFinal(bytes, k) ==
    IF Len(bytes) < RECORD_LENGTH * k THEN 0
    ELSE IF SubSeq(bytes, RECORD_LENGTH * (k - 1) + 1, RECORD_LENGTH * (k - 1) + TAG_LENGTH) = SLEND
         THEN k
         ELSE FirstFinal(bytes, k + 1)

\* The completions of the poll: the calls of its callback, and the decode
\* that threw in place of one
Completions == Len(cycleLog) + (IF pc = "terminated" THEN 1 ELSE 0)

\* C21: once the final record has been received the socket is destroyed,
\* the payload list holds one chunk for each record up to the final one and
\* no more, whatever bytes came with it or were to come after it, and the
\* poll has completed once.
C21_NothingAfterFinal ==
    /\ FirstFinal(Received, 1) > 0 =>
          /\ socket.state = "destroyed"
          /\ Len(socket.records) = FirstFinal(Received, 1)
          /\ Completions = 1
    /\ Completions <= 1
    /\ Completions = 1 => FirstFinal(Received, 1) > 0

\* The final record was received with bytes after it in the same chunk,
\* and the server had more to send
C21_Witness ==
    /\ socket.state = "destroyed"
    /\ Len(socket.records) = 1
    /\ Len(socket.buffer) > RECORD_LENGTH
    /\ endpoint.sent < Len(endpoint.stream)
    /\ Len(cycleLog) = 1
    /\ cycleLog[1].error = "null"

---------------------------------------------------------------------------
(* A connection that fails or ends before the final record *)

\* The k+1st poll of a cycle is outstanding on a connection the server has
\* closed before a final record
Ended(k) ==
    /\ pc = "polling"
    /\ Len(cycleLog) = k
    /\ socket.state = "closed"
    /\ FirstFinal(Received, 1) = 0

\* C22: a poll whose connection failed is reported with its error and
\* without records, whatever chunks it had collected, and a poll whose
\* connection the server closed before a final record is reported as
\* failed too, so that the cycle goes on.
C22_BrokenPollReportsFailure ==
    /\ [](\A i \in DOMAIN cycleLog :
            cycleLog[i].error # "null" => cycleLog[i].result = <<>>)
    /\ \A k \in 0..(MaxServers - 1) :
          Ended(k) ~> (Len(cycleLog) > k /\ cycleLog[k + 1].error # "null")

---------------------------------------------------------------------------
(* The decoder *)

\* The places of a document that hold a stream element of type "D"
DataStreams(doc) ==
    SelectSeq([i \in 1..Len(doc) |-> i],
              LAMBDA i : doc[i] \in StreamElements /\ StreamAttr(doc[i]).type = "D")

\* The station element that encloses the element at place i
Enclosing(doc, i) ==
    doc[CHOOSE j \in 1..(i - 1) :
            /\ doc[j] \in StationElements
            /\ \A k \in (j + 1)..(i - 1) : doc[k] \notin StationElements]

\* One identifier for each "D" stream of the document, in document order
ExpectedStreams(doc) ==
    [k \in DOMAIN DataStreams(doc) |->
        [network  |-> StationAttr(Enclosing(doc, DataStreams(doc)[k])).network,
         station  |-> StationAttr(Enclosing(doc, DataStreams(doc)[k])).name,
         location |-> StreamAttr(doc[DataStreams(doc)[k]]).location,
         channel  |-> StreamAttr(doc[DataStreams(doc)[k]]).seedname]]

\* The identifiers of a list of latency records
Identifiers(list) ==
    [k \in DOMAIN list |->
        [network |-> list[k].network, station |-> list[k].station,
         location |-> list[k].location, channel |-> list[k].channel]]

\* C23: the records decoded from a document are, in document order, one
\* for each stream element of type "D" and none for another type, each with
\* the network and station of the enclosing station element and the
\* location and channel of the stream element.
C23_OneRecordPerDataStream ==
    cycleLog # <<>> =>
        /\ cycleLog[1].error = "null"
        /\ Identifiers(cycleLog[1].result) = ExpectedStreams(Join(socket.records))

\* A station with a "D" and an "E" stream has given one record
C23_Witness ==
    /\ cycleLog # <<>>
    /\ Join(socket.records) = DocMarco
    /\ Len(cycleLog[1].result) = 1
    /\ cycleLog[1].result[1].channel = <<"H", "H", "Z">>
    /\ cycleLog[1].result[1].station = <<"M", "A", "R", "C", "O">>

---------------------------------------------------------------------------
(* The order of a poll *)

\* C24: the request is written once, by the connect listener: not before
\* the connection is made, and before any byte of the response is handled;
\* and a poll that returns records has destroyed its socket before the
\* callback receives them.
C24_ProtocolOrder ==
    /\ socket.written <= 1
    /\ socket.state = "connecting" =>
          socket.written = 0 /\ endpoint.sent = 0 /\ socket.records = <<>>
    /\ (socket.state \in {"open", "closed"} \/ endpoint.sent > 0 \/ socket.records # <<>>) =>
          socket.written = 1
    /\ \A i \in DOMAIN cycleLog : cycleLog[i].error = "null" => cycleLog[i].closed

\* A poll has returned a record: one request written, the socket destroyed
C24_Witness ==
    /\ pc = "waiting"
    /\ cycleLog # <<>>
    /\ cycleLog[Len(cycleLog)].error = "null"
    /\ cycleLog[Len(cycleLog)].result # <<>>
    /\ cycleLog[Len(cycleLog)].closed
    /\ socket.written = 1
    /\ socket.state = "destroyed"
    /\ endpoint.sent = Len(endpoint.stream)

---------------------------------------------------------------------------
(* The blank location of a record *)

\* A record with the placeholder "--" stripped from its stored location
StripLocation(r) ==
    IF r.location = <<"-", "-">> THEN [r EXCEPT !.location = <<>>] ELSE r

\* C25: a query with a location parameter returns, of the records the same
\* query without that parameter returns, those whose location with the
\* placeholder stripped matches: a record stored with "--" is matched as a
\* record stored with the empty location is.
C25_PlaceholderStrippedOnRecords ==
    (/\ Answered
     /\ validateParameters(request.queryObject) = "ok"
     /\ "location" \in DOMAIN request.queryObject)
        => response.body =
              SelectSeq(filterLatencies(observed, Without(request.queryObject, "location")),
                        LAMBDA r : KeepLatency(StripLocation(r),
                                       [k \in {"location"} |-> request.queryObject["location"]]))

---------------------------------------------------------------------------
(* Validation before filtering *)

\* C26: a request that reaches the query engine is answered from the filter
\* only when validateParameters has accepted its query; a query that
\* validateParameters rejects is answered 400 with the message of the
\* validation and nothing of the snapshot.
C26_ValidatedBeforeFilter ==
    (/\ request.pathname = "/"
     /\ ~configuration.__CLOSED__
     /\ observed # <<>>)
        => IF validateParameters(request.queryObject) = "ok"
           THEN /\ response.statusCode \in {200, 204}
                /\ response.body = filterLatencies(observed, request.queryObject)
           ELSE /\ response.statusCode = 400
                /\ response.message = validateParameters(request.queryObject)
                /\ response.body = NoBody

\* A rejected query for which the filter would have returned records
C26_Witness ==
    /\ request.pathname = "/"
    /\ validateParameters(request.queryObject) # "ok"
    /\ observed # <<>>
    /\ filterLatencies(observed, request.queryObject) # <<>>
    /\ response.statusCode = 400

---------------------------------------------------------------------------
(* The writer of the snapshot *)

\* C27: the snapshot changes only in a step in which setLatencyCache runs,
\* and then to the list that cycle has merged; a step that handles a
\* request, whatever its answer, a step of a poll that does not end the
\* cycle, and a step of the clock leave it as it is.
C27_OnlyPublishingWrites ==
    [][/\ (cachedLatencies' # cachedLatencies \/ published' # published) =>
             /\ Publishes
             /\ httpVars' = httpVars
             /\ cachedLatencies' = NewCache(configuration, Successes(cycleLog'))
       /\ (httpVars' # httpVars \/ ~Publishes) =>
             cachedLatencies' = cachedLatencies /\ published' = published]_vars

\* A query was rejected while a cycle that has had a failed poll is running
\* over a snapshot with a record
C27_Witness ==
    /\ published
    /\ cachedLatencies # <<>>
    /\ pc = "polling"
    /\ cycleLog # <<>>
    /\ cycleLog[1].error # "null"
    /\ response.statusCode = 400
    /\ observed = cachedLatencies

---------------------------------------------------------------------------
(* The cycles *)

\* C28: the first cycle is started by the constructor: as long as no cycle
\* has published, one is running, started without a timer having been
\* armed, whether or not a request has been handled; with no server
\* configured it has published at construction.
C28_FirstCycleAtConstruction ==
    /\ ~published =>
          /\ pc \in {"polling", "terminated"}
          /\ timer = -1
          /\ sincePublish = -1
    /\ sincePublish = -1 => ~published /\ configuration.servers # <<>>

\* The state the constructor leaves: the first poll connecting, no request
\* handled, no time passed
C28_Witness ==
    /\ request = NoRequest
    /\ ~published
    /\ pc = "polling"
    /\ socket.state = "connecting"
    /\ cycleLog = <<>>
    /\ Len(servers) + 1 = Len(configuration.servers)
    /\ timer = -1

Reverse(seq) == [i \in DOMAIN seq |-> seq[Len(seq) + 1 - i]]

\* The servers the running cycle has connected to, in the order of the
\* connections
Attempted ==
    [i \in DOMAIN cycleLog |-> cycleLog[i].server]
        \o (IF pc \in {"polling", "terminated"} THEN <<server>> ELSE <<>>)

\* C29: the servers a cycle has connected to and those it has still to
\* poll make up the configured list, each server once: no server is
\* connected to a second time in a cycle, whether its poll succeeded or
\* failed.
C29_NoRetry ==
    servers \o Reverse(Attempted) = configuration.servers

\* A cycle of two servers in which the first poll failed has ended
C29_Witness ==
    /\ pc = "waiting"
    /\ Len(cycleLog) = 2
    /\ cycleLog[1].error # "null"
    /\ cycleLog[2].error = "null"
    /\ Attempted = <<2, 1>>

\* C30: no step changes the configured list; a cycle that starts takes the
\* whole configured list, and a cycle that publishes has polled as many
\* servers as are configured.
C30_ConfiguredListKept ==
    [][/\ configuration' = configuration
       /\ CycleStarts =>
             IF configuration.servers = <<>>
             THEN Publishes /\ completedLog' = <<>>
             ELSE /\ cycleLog' = <<>>
                  /\ Append(servers', server') = configuration.servers
       /\ Publishes => Len(completedLog') = Len(configuration.servers)]_vars

\* A second cycle has started on the whole list of two servers
C30_Witness ==
    /\ published
    /\ Len(completedLog) = 2
    /\ pc = "polling"
    /\ cycleLog = <<>>
    /\ Append(servers, server) = configuration.servers
    /\ Len(configuration.servers) = 2

---------------------------------------------------------------------------
(* The latency of a record *)

\* The end time of the stream element that gave the k-th record
EndTime(doc, k) == StreamAttr(doc[DataStreams(doc)[k]]).end_time

\* C31: the records of one decode have, for one reading of the clock, the
\* msLatency that reading minus the end time of their stream, negative
\* when the end time is the later; so of two records of a decode the one
\* with the later end time has the smaller msLatency.
C31_LatencyFromOneInstant ==
    cycleLog # <<>> =>
        /\ \E current \in DecoderInstants :
              \A k \in DOMAIN cycleLog[1].result :
                 /\ cycleLog[1].result[k].end = EndTime(Join(socket.records), k)
                 /\ cycleLog[1].result[k].msLatency
                       = current - EndTime(Join(socket.records), k)
        /\ \A j, k \in DOMAIN cycleLog[1].result :
              cycleLog[1].result[j].end > cycleLog[1].result[k].end
                 => cycleLog[1].result[j].msLatency < cycleLog[1].result[k].msLatency

\* A decode of two streams, one ended before and one after the reading of
\* the clock
C31_Witness ==
    /\ cycleLog # <<>>
    /\ Len(cycleLog[1].result) = 2
    /\ cycleLog[1].result[1].msLatency > 0
    /\ cycleLog[1].result[2].msLatency < 0
    /\ cycleLog[1].result[1].end < cycleLog[1].result[2].end

---------------------------------------------------------------------------
(* Lists of patterns *)

\* The query with the list of patterns of a field cut down to its i-th item
OnlyItem(q, key, i) == [q EXCEPT ![key] = Split(q[key])[i]]

\* C32: a record selected by one pattern of a field's list is selected by
\* the whole list: the result under any single item of the list, the other
\* constraints unchanged, is within the result of the request.
C32_LongerListKeeps ==
    (Answered /\ validateParameters(request.queryObject) = "ok")
        => \A key \in DOMAIN request.queryObject
                         \cap {"network", "station", "location", "channel"} :
              \A i \in DOMAIN Split(request.queryObject[key]) :
                 IsSubsequence(
                    filterLatencies(observed, OnlyItem(request.queryObject, key, i)),
                    response.body)

---------------------------------------------------------------------------
(* One cycle, one poll, one timer *)

\* A socket whose listeners can still be called
Live(sock) == sock.state \in {"connecting", "open"}

\* A step that opens the socket of a poll
PollStarts ==
    /\ pc' = "polling"
    /\ socket'.state = "connecting"
    /\ pc # "polling" \/ servers' # servers \/ cycleLog' # cycleLog

\* A step in which setLatencyCache arms the timer
Arms ==
    /\ pc' = "waiting"
    /\ timer' = 0
    /\ pc # "waiting" \/ cycleLog' # cycleLog \/ timer >= configuration.REFRESH_INTERVAL

\* C33: cycles do not overlap and the polls of a cycle follow one another:
\* a timer is pending only between cycles; outside a cycle no socket is
\* live and inside one the only socket has not reported yet; a poll starts
\* at the start of a cycle or in the step the poll before it reports; the
\* timer is armed only when none is pending (the cycle consumed it, or it
\* fires on an empty list of servers in the same step).
C33_OneCycleOnePollOneTimer ==
    /\ [](timer >= 0 => pc = "waiting")
    /\ [](pc = "waiting" => ~Live(socket))
    /\ [](pc = "polling" =>
            /\ socket.state \in {"connecting", "open", "closed"}
            /\ socket.called = 0
            /\ timer = -1)
    /\ [][PollStarts =>
            \/ pc = "waiting" /\ ~Live(socket) /\ cycleLog' = <<>>
            \/ /\ pc = "polling"
               /\ Len(cycleLog') = Len(cycleLog) + 1
               /\ cycleLog'[Len(cycleLog')].server = server
               /\ Len(servers') = Len(servers) - 1]_vars
    /\ [][Arms =>
            \/ timer = -1
            \/ configuration.servers = <<>> /\ timer >= configuration.REFRESH_INTERVAL]_vars

\* The second poll of a second cycle is under way: the timer was consumed,
\* the socket of the first poll has reported and this one has not
C33_Witness ==
    /\ pc = "polling"
    /\ completedLog # <<>>
    /\ Len(cycleLog) = 1
    /\ cycleLog[1].closed
    /\ socket.state = "open"
    /\ timer = -1

---------------------------------------------------------------------------
(* The callback of a poll *)

\* C34: the callback given to getLatencies is called at most once for a
\* connection, whatever data and error events the connection sees: every
\* call is made by a live socket that has not called yet, and it advances
\* next() by the one server of that socket.
C34_CallbackAtMostOnce ==
    /\ [](socket.called <= 1)
    /\ [](Len(cycleLog) = socket.called)
    /\ [][cycleLog' # cycleLog =>
            /\ Live(socket)
            /\ socket.called = 0
            /\ socket'.called = 1
            /\ ~Live(socket')
            /\ cycleLog' = <<[server |-> server, error |-> cycleLog'[1].error,
                              result |-> cycleLog'[1].result, closed |-> TRUE]>>]_vars

\* The final record was read and reported; the server still has bytes to
\* send and a reset to make, and none of them reaches the callback
C34_Witness ==
    /\ socket.called = 1
    /\ cycleLog[1].error = "null"
    /\ endpoint.ending = "reset"
    /\ endpoint.sent < Len(endpoint.stream)
    /\ ~ENABLED NextEvents

---------------------------------------------------------------------------
(* A cycle of failures *)

\* No poll of the cycle has given records, and the connection of its last
\* poll is over: it raised an error, was closed by the server short of a
\* final record, or gave a response that cannot be decoded
EveryEndpointFailed ==
    /\ servers = <<>>
    /\ \A i \in DOMAIN cycleLog : cycleLog[i].error # "null"
    /\ \/ configuration.servers = <<>>
       \/ socket.state \in {"destroyed", "closed"}

\* C35: a cycle in which every endpoint has failed, or with no endpoint,
\* has published: the snapshot is empty, whatever it was before, and the
\* timer of the next cycle is pending.
C35_FailedCyclePublishesEmpty ==
    EveryEndpointFailed =>
        /\ pc = "waiting"
        /\ published
        /\ cachedLatencies = <<>>
        /\ timer >= 0

---------------------------------------------------------------------------
(* The order of the polls and of the snapshot *)

\* The first n servers a cycle polls: the configured list from its end
PollOrder(n) == SubSeq(Reverse(configuration.servers), 1, n)

\* C36: a cycle polls the configured servers from the last to the first;
\* the list it merges is, at every moment, the record lists of the polls
\* that succeeded, one after another in the order of the polls and each as
\* it was decoded, and without sorting that list is the snapshot.
C36_ReversePollOrder ==
    /\ Attempted = PollOrder(Len(Attempted))
    /\ pc = "polling" => latencies = Successes(cycleLog)
    /\ published =>
          /\ [i \in DOMAIN completedLog |-> completedLog[i].server]
                = PollOrder(Len(configuration.servers))
          /\ ~configuration.__SORT__ => cachedLatencies = Successes(completedLog)

\* Two servers answered, the last configured first with two records, and
\* the snapshot holds its records before those of the other
C36_Witness ==
    /\ published
    /\ ~configuration.__SORT__
    /\ Len(completedLog) = 2
    /\ completedLog[1].server = 2
    /\ completedLog[2].server = 1
    /\ Len(completedLog[1].result) = 2
    /\ Len(completedLog[2].result) = 1
    /\ cachedLatencies = completedLog[1].result \o completedLog[2].result
    /\ cachedLatencies # completedLog[2].result \o completedLog[1].result

=============================================================================
